---- MODULE Spec2Model ----
(***************************************************************************)
(* Exam-attempt / device-session concurrency core of TestGuard.            *)
(*                                                                         *)
(* The database tables are sets of rows (records).  Time is the wall clock *)
(* in seconds.  Every call is a function from the database before it to    *)
(* the database after it and the value returned (the do_... operators);    *)
(* the actions apply these functions.  Six specifications share the state: *)
(*   Spec      every call (model method or view) runs alone, start to end; *)
(*   SpecConc  two request workers interleave at the granularity of the    *)
(*             database statements that ExamAttempt.save() issues          *)
(*             (pre_save query, row write, post_save reconciliation).      *)
(*   SpecCore  the core app's UserDeviceSession and ActiveExamSession      *)
(*             tables and their two activity windows, calls run alone.     *)
(*   SpecStore the QuestionResponse rows of one attempt.                   *)
(*   SpecFeed  the MonitoringEvent feed and its review workflow.           *)
(*   SpecAudit every operation that ends a session row, in both apps.      *)
(***************************************************************************)
EXTENDS Integers, Sequences, FiniteSets, TLC

VARIABLES
    now,          \* timezone.now(), seconds
    exam,         \* the Exam row (read-only during attempts)
    attempts,     \* table exams_examattempt
    sessions,     \* table exams_activeexamsession
    responses,    \* table exams_questionresponse
    uuid_count,   \* number of uuid.uuid4() values drawn so far
    pc,           \* SpecConc: each worker's position inside save()
    inst,         \* SpecConc: each worker's in-memory ExamAttempt instance
    device_sessions,  \* table core_userdevicesession
    core_sessions,    \* table core_activeexamsession
    events            \* table exams_monitoringevent

vars == <<now, exam, attempts, sessions, responses, uuid_count, pc, inst,
          device_sessions, core_sessions, events>>

(***************************************************************************)
(* Bounds of the model.                                                    *)
(***************************************************************************)
\* the clock advances one minute at a time, MaxTicks times
MaxTicks == 1
\* seconds in a minute of exam.duration
SecondsPerMinute == 60
\* uuid4 values the model may draw
MaxTokens == 2
\* wrong passwords the model may count
MaxWrong == 1
\* auto-saves the model may count on one response
MaxDrafts == 1
\* MonitoringEvent rows the model may create
MaxEvents == 1
\* questions of the exam
NumQuestions == 1
\* exam.duration in minutes
ExamDuration == 1
\* exam.end_date, in minutes after the initial state
ExamEndTicks == MaxTicks - 1

\* ActiveExamSession.is_valid's activity window and
\* UserDeviceSession.should_timeout's idle limit, seconds
ActivityWindow == 300
DeviceTimeout == 3600
\* the instants at which SpecCore observes the clock: both sides of each limit
CoreInstants ==
    {0, 1, ActivityWindow - 1, ActivityWindow, DeviceTimeout, DeviceTimeout + 1}

Student == "s1"
ExamId == "e1"
Devices == {"dA", "dB"}
Workers == {"w1", "w2"}
Reasons == {"policy violation", "Multiple device access detected"}
Questions == 1..NumQuestions
AnswerTexts == {"a"}
\* answers given to save_draft and finalize_answer
DraftAnswers == {"a", "b"}

\* the null of a DateTimeField, of a UUIDField and of the device_session FK
NoTime == -1
NoToken == 0
NoDevice == "null"

\* password texts are sequences of characters; None is kept apart from ""
NoPassword == <<"None">>
ExamPasswords == { <<" ">>, <<"s">> }
PasswordAttempts == { NoPassword, <<>>, <<"s">>, <<"x">> }

NOT_STARTED == "NOT_STARTED"
PASSWORD_REQUIRED == "PASSWORD_REQUIRED"
IN_PROGRESS == "IN_PROGRESS"
SUBMITTED == "SUBMITTED"
AUTO_SUBMITTED == "AUTO_SUBMITTED"
TERMINATED == "TERMINATED"
Terminal == {SUBMITTED, AUTO_SUBMITTED, TERMINATED}

(***************************************************************************)
(* Exam                                                                    *)
(***************************************************************************)
RECURSIVE LStrip(_)
LStrip(s) == IF s # <<>> /\ Head(s) = " " THEN LStrip(Tail(s)) ELSE s

RECURSIVE RStrip(_)
RStrip(s) ==
    IF s # <<>> /\ s[Len(s)] = " " THEN RStrip(SubSeq(s, 1, Len(s) - 1)) ELSE s

\* str.strip()
Strip(s) == RStrip(LStrip(s))

\* Exam.requires_password
requires_password(e) == Strip(e.exam_password) # <<>>

\* Exam.validate_password
validate_password(e, password_attempt) ==
    IF ~requires_password(e) THEN TRUE ELSE e.exam_password = password_attempt

\* Exam.is_active
exam_is_active(e, t) ==
    e.status = "LIVE" /\ e.start_date <= t /\ t <= e.end_date

\* Python truth value of the password_attempt argument
Falsy(password_attempt) == password_attempt = NoPassword \/ password_attempt = <<>>

(***************************************************************************)
(* UserDeviceSession: the device fingerprint (core/models.py)              *)
(***************************************************************************)
UserAgents == {"Firefox", "Chrome"}
ClientIps == {"10.0.0.1", "10.0.0.2"}

\* the part of an HttpRequest that create_from_request reads
Requests ==
    [ user_agent : UserAgents, accept_language : {"en"}, sec_ch_ua : {""},
      sec_ch_ua_platform : {""}, ip : ClientIps ]

\* UserDeviceSession.generate_device_hash: SHA-256 over the JSON of the four
\* headers and the SECRET_KEY, kept as the tuple it digests (no collisions)
generate_device_hash(request) ==
    << request.user_agent, request.accept_language, request.sec_ch_ua,
       request.sec_ch_ua_platform, "SECRET_KEY" >>

DeviceHashes == { generate_device_hash(q) : q \in Requests }

\* the device_hash column of the student's UserDeviceSession rows dA and dB
device_hash(d) ==
    generate_device_hash(
        [ user_agent |-> IF d = "dA" THEN "Firefox" ELSE "Chrome",
          accept_language |-> "en", sec_ch_ua |-> "", sec_ch_ua_platform |-> "",
          ip |-> "10.0.0.1" ])

(***************************************************************************)
(* ExamAttempt                                                             *)
(***************************************************************************)
\* ExamAttempt.objects.create(exam, student, status=NOT_STARTED)
NewAttempt(id) ==
    [ id |-> id, exam |-> ExamId, student |-> Student,
      status |-> NOT_STARTED, start_time |-> NoTime, end_time |-> NoTime,
      device_session |-> NoDevice, session_token |-> NoToken,
      termination_reason |-> "", password_attempts |-> 0,
      last_password_attempt |-> NoTime ]

\* time_remaining as it would be without the max(0, ...) clamp
time_remaining_Unclamped(a, t) ==
    IF a.status = IN_PROGRESS /\ a.start_time # NoTime
    THEN (exam.duration * SecondsPerMinute) - (t - a.start_time)
    ELSE 0

\* ExamAttempt.time_remaining
time_remaining(a, t) ==
    IF a.status = IN_PROGRESS /\ a.start_time # NoTime
    THEN LET remaining == (exam.duration * SecondsPerMinute) - (t - a.start_time)
         IN  IF remaining > 0 THEN remaining ELSE 0
    ELSE 0

\* can_access_from_device as it would be if it compared hashes in every status
can_access_from_device_AnyStatus(a, current_device_hash) ==
    IF a.device_session = NoDevice
    THEN TRUE
    ELSE device_hash(a.device_session) = current_device_hash

\* ExamAttempt.can_access_from_device
can_access_from_device(a, current_device_hash) ==
    IF a.device_session = NoDevice
    THEN TRUE
    ELSE \/ a.status # IN_PROGRESS
         \/ device_hash(a.device_session) = current_device_hash

\* requires_password_input as it would be if it looked at the status only
requires_password_input_StatusOnly(a) == a.status = PASSWORD_REQUIRED

\* ExamAttempt.requires_password_input
requires_password_input(a) ==
    \/ a.status = PASSWORD_REQUIRED
    \/ (a.status = NOT_STARTED /\ requires_password(exam))

\* ExamAttempt.clean: the rows that make it raise ValidationError
CleanConflicts(rows, a) ==
    IF a.status = IN_PROGRESS /\ a.device_session # NoDevice
    THEN { r \in rows : /\ r.user = a.student
                        /\ r.exam = a.exam
                        /\ r.is_active
                        /\ r.attempt # a.id }
    ELSE {}

\* pre_save receiver validate_single_device_access: TRUE when it raises
PreSaveRaises(rows, a) ==
    a.status = IN_PROGRESS /\ CleanConflicts(rows, a) # {}

\* start_exam as it would be if a missing password were counted as a wrong one
start_exam_CountsMissing(a, device_session, password_attempt, t, fresh) ==
    IF requires_password(exam) /\ Falsy(password_attempt)
    THEN [ inst |-> [a EXCEPT !.status = PASSWORD_REQUIRED,
                              !.password_attempts = @ + 1],
           success |-> FALSE, message |-> "Password required to start exam",
           drew |-> FALSE ]
    ELSE IF requires_password(exam) /\ ~validate_password(exam, password_attempt)
    THEN [ inst |-> [a EXCEPT !.password_attempts = @ + 1,
                              !.last_password_attempt = t],
           success |-> FALSE, message |-> "Incorrect exam password",
           drew |-> FALSE ]
    ELSE [ inst |-> [a EXCEPT !.status = IN_PROGRESS,
                              !.start_time = t,
                              !.device_session = device_session,
                              !.session_token = fresh],
           success |-> TRUE, message |-> "Exam started successfully",
           drew |-> TRUE ]

\* start_exam as it would be if a wrong password sent the attempt back to
\* PASSWORD_REQUIRED
start_exam_WrongGates(a, device_session, password_attempt, t, fresh) ==
    IF requires_password(exam) /\ Falsy(password_attempt)
    THEN [ inst |-> [a EXCEPT !.status = PASSWORD_REQUIRED],
           success |-> FALSE, message |-> "Password required to start exam",
           drew |-> FALSE ]
    ELSE IF requires_password(exam) /\ ~validate_password(exam, password_attempt)
    THEN [ inst |-> [a EXCEPT !.status = PASSWORD_REQUIRED,
                              !.password_attempts = @ + 1,
                              !.last_password_attempt = t],
           success |-> FALSE, message |-> "Incorrect exam password",
           drew |-> FALSE ]
    ELSE [ inst |-> [a EXCEPT !.status = IN_PROGRESS,
                              !.start_time = t,
                              !.device_session = device_session,
                              !.session_token = fresh],
           success |-> TRUE, message |-> "Exam started successfully",
           drew |-> TRUE ]

\* start_exam as it would be with session_token = session_token or uuid4()
start_exam_KeepsToken(a, device_session, password_attempt, t, fresh) ==
    IF requires_password(exam) /\ Falsy(password_attempt)
    THEN [ inst |-> [a EXCEPT !.status = PASSWORD_REQUIRED],
           success |-> FALSE, message |-> "Password required to start exam",
           drew |-> FALSE ]
    ELSE IF requires_password(exam) /\ ~validate_password(exam, password_attempt)
    THEN [ inst |-> [a EXCEPT !.password_attempts = @ + 1,
                              !.last_password_attempt = t],
           success |-> FALSE, message |-> "Incorrect exam password",
           drew |-> FALSE ]
    ELSE [ inst |-> [a EXCEPT !.status = IN_PROGRESS,
                              !.start_time = t,
                              !.device_session = device_session,
                              !.session_token =
                                  IF @ # NoToken THEN @ ELSE fresh],
           success |-> TRUE, message |-> "Exam started successfully",
           drew |-> a.session_token = NoToken ]

\* start_exam as it would be if a successful start cleared the wrong-password
\* counter
start_exam_ResetsCount(a, device_session, password_attempt, t, fresh) ==
    IF requires_password(exam) /\ Falsy(password_attempt)
    THEN [ inst |-> [a EXCEPT !.status = PASSWORD_REQUIRED],
           success |-> FALSE, message |-> "Password required to start exam",
           drew |-> FALSE ]
    ELSE IF requires_password(exam) /\ ~validate_password(exam, password_attempt)
    THEN [ inst |-> [a EXCEPT !.password_attempts = @ + 1,
                              !.last_password_attempt = t],
           success |-> FALSE, message |-> "Incorrect exam password",
           drew |-> FALSE ]
    ELSE [ inst |-> [a EXCEPT !.status = IN_PROGRESS,
                              !.start_time = t,
                              !.device_session = device_session,
                              !.session_token = fresh,
                              !.password_attempts = 0],
           success |-> TRUE, message |-> "Exam started successfully",
           drew |-> TRUE ]

\* ExamAttempt.start_exam up to its save(): the instance as mutated in memory,
\* the (success, message) it is about to return, and whether uuid4 was drawn
start_exam(a, device_session, password_attempt, t, fresh) ==
    IF requires_password(exam) /\ Falsy(password_attempt)
    THEN [ inst |-> [a EXCEPT !.status = PASSWORD_REQUIRED],
           success |-> FALSE, message |-> "Password required to start exam",
           drew |-> FALSE ]
    ELSE IF requires_password(exam) /\ ~validate_password(exam, password_attempt)
    THEN [ inst |-> [a EXCEPT !.password_attempts = @ + 1,
                              !.last_password_attempt = t],
           success |-> FALSE, message |-> "Incorrect exam password",
           drew |-> FALSE ]
    ELSE [ inst |-> [a EXCEPT !.status = IN_PROGRESS,
                              !.start_time = t,
                              !.device_session = device_session,
                              !.session_token = fresh],
           success |-> TRUE, message |-> "Exam started successfully",
           drew |-> TRUE ]

\* terminate_session as it would be if it did not stamp end_time
terminate_session_NoEndTime(a, reason, t) ==
    [a EXCEPT !.status = TERMINATED,
              !.termination_reason = reason]

\* ExamAttempt.terminate_session up to its save()
terminate_session(a, reason, t) ==
    [a EXCEPT !.status = TERMINATED,
              !.termination_reason = reason,
              !.end_time = t]

(***************************************************************************)
(* ActiveExamSession (exams app) and the post_save reconciliation          *)
(***************************************************************************)
\* update_or_create as it would be if it were objects.create and the table
\* had no unique_together
UpdateOrCreate_AlwaysCreates(rows, a, token, t) ==
    rows \cup
    { [ user |-> a.student, exam |-> a.exam, attempt |-> a.id,
        device_session |-> a.device_session, session_token |-> token,
        started_at |-> t, last_activity |-> t, is_active |-> TRUE ] }

\* ActiveExamSession.objects.update_or_create(user, exam, defaults)
UpdateOrCreate(rows, a, token, t) ==
    LET found == { r \in rows : r.user = a.student /\ r.exam = a.exam }
    IN  IF found # {}
        THEN (rows \ found) \cup
             { [r EXCEPT !.device_session = a.device_session,
                         !.attempt = a.id,
                         !.session_token = token,
                         !.is_active = TRUE,
                         !.last_activity = t] : r \in found }
        ELSE rows \cup
             { [ user |-> a.student, exam |-> a.exam, attempt |-> a.id,
                 device_session |-> a.device_session, session_token |-> token,
                 started_at |-> t, last_activity |-> t, is_active |-> TRUE ] }

\* ActiveExamSession.deactivate (exams) on the instance
exam_session_deactivate(r) == [r EXCEPT !.is_active = FALSE]

\* the filter(...).update(is_active=False) as it would be if it were a
\* filter(...).delete()
DeactivateAll_Deletes(rows, a) ==
    { r \in rows : ~(r.user = a.student /\ r.exam = a.exam) }

\* ActiveExamSession.objects.filter(user, exam).update(is_active=False)
DeactivateAll(rows, a) ==
    { IF r.user = a.student /\ r.exam = a.exam
      THEN [r EXCEPT !.is_active = FALSE] ELSE r : r \in rows }

\* the statuses for which manage_active_sessions deactivates the tracker row
DeactivatingStatuses == {SUBMITTED, TERMINATED}

\* post_save receiver manage_active_sessions: TRUE when it draws a uuid4
PostSaveDraws(a) ==
    a.status = IN_PROGRESS /\ a.device_session # NoDevice /\ a.session_token = NoToken

\* manage_active_sessions as it would be with 'session_token': uuid.uuid4()
manage_active_sessions_NewToken(rows, a, t, fresh) ==
    IF a.status = IN_PROGRESS /\ a.device_session # NoDevice
    THEN UpdateOrCreate(rows, a, fresh, t)
    ELSE IF a.status \in DeactivatingStatuses
    THEN DeactivateAll(rows, a)
    ELSE rows

\* post_save receiver manage_active_sessions: the tracker table afterwards
manage_active_sessions(rows, a, t, fresh) ==
    IF a.status = IN_PROGRESS /\ a.device_session # NoDevice
    THEN UpdateOrCreate(rows, a,
                        IF a.session_token # NoToken THEN a.session_token ELSE fresh,
                        t)
    ELSE IF a.status \in DeactivatingStatuses
    THEN DeactivateAll(rows, a)
    ELSE rows

\* the trailing ActiveExamSession.objects.filter(..., is_active=True).update(...)
\* of ExamAttempt.terminate_session
TerminateUpdate(rows, a) ==
    { IF r.user = a.student /\ r.exam = a.exam /\ r.is_active
      THEN [r EXCEPT !.is_active = FALSE] ELSE r : r \in rows }

(***************************************************************************)
(* The database, and Model.save() of an ExamAttempt                        *)
(***************************************************************************)
DB == [ attempts |-> attempts, sessions |-> sessions,
        responses |-> responses, uuid_count |-> uuid_count ]

HasAttempt(db) == \E a \in db.attempts : a.student = Student /\ a.exam = ExamId

\* get_object_or_404(ExamAttempt, ...)
AttemptOf(db) == CHOOSE a \in db.attempts : a.student = Student /\ a.exam = ExamId

\* UPDATE of the attempt's row with every field of the instance (Model.save)
WriteRow(rows, a) == { IF r.id = a.id THEN a ELSE r : r \in rows }

\* instance.save(): pre_save, the row write, post_save.  raised is TRUE when
\* pre_save raised ValidationError, and then nothing was written.
save(db, a, t) ==
    IF PreSaveRaises(db.sessions, a)
    THEN [db |-> db, raised |-> TRUE]
    ELSE [db |-> [db EXCEPT
                    !.attempts = WriteRow(db.attempts, a),
                    !.sessions = manage_active_sessions(db.sessions, a, t,
                                                        db.uuid_count + 1),
                    !.uuid_count = @ + (IF PostSaveDraws(a) THEN 1 ELSE 0)],
          raised |-> FALSE]

(***************************************************************************)
(* Calls of the model methods on a freshly loaded attempt                  *)
(***************************************************************************)
\* attempt.start_exam(device_session, password_attempt)
do_start_exam(db, device_session, password_attempt, t) ==
    LET r == start_exam(AttemptOf(db), device_session, password_attempt, t,
                        db.uuid_count + 1)
        s == save([db EXCEPT !.uuid_count = @ + (IF r.drew THEN 1 ELSE 0)],
                  r.inst, t)
    IN  [ db |-> s.db,
          success |-> r.success /\ ~s.raised,
          ret |-> IF s.raised THEN "ValidationError" ELSE r.message ]

\* attempt.terminate_session(reason)
do_terminate_session(db, reason, t) ==
    LET a == terminate_session(AttemptOf(db), reason, t)
        s == save(db, a, t)
    IN  [ db |-> [s.db EXCEPT !.sessions = TerminateUpdate(@, a)],
          ret |-> "None" ]

(***************************************************************************)
(* QuestionResponse                                                        *)
(***************************************************************************)
NoAnswer == [answer |-> "None", timestamp |-> NoTime]
\* the null of points_awarded
NoPoints == "None"

\* QuestionResponse.objects.get_or_create(attempt, question,
\*     defaults={'student_answer': answer_data}), then, when the row was found,
\* response.student_answer = answer_data; response.save()
SaveResponse(rows, a, q, answer_data) ==
    LET found == { r \in rows : r.attempt = a.id /\ r.question = q }
    IN  IF found # {}
        THEN (rows \ found) \cup
             { [r EXCEPT !.student_answer = answer_data] : r \in found }
        ELSE rows \cup
             { [ attempt |-> a.id, question |-> q,
                 student_answer |-> answer_data, draft_answer |-> NoAnswer,
                 auto_save_count |-> 0, last_auto_save |-> NoTime,
                 is_submitted |-> FALSE, points_awarded |-> NoPoints ] }

\* save_draft as it would be if it also wrote the draft to student_answer
save_draft_TouchesAnswer(r, answer_data, t) ==
    [r EXCEPT !.draft_answer = answer_data,
              !.student_answer = answer_data,
              !.auto_save_count = @ + 1,
              !.last_auto_save = t]

\* QuestionResponse.save_draft on the instance
save_draft(r, answer_data, t) ==
    [r EXCEPT !.draft_answer = answer_data,
              !.auto_save_count = @ + 1,
              !.last_auto_save = t]

\* response.save_draft(answer_data): save(update_fields=[...]) of the row
do_save_draft(db, r, answer_data, t) ==
    [db EXCEPT !.responses = (@ \ {r}) \cup {save_draft(r, answer_data, t)}]

\* finalize_answer as it would be if it refused a response that is already
\* submitted
finalize_answer_OnlyOnce(r, answer_data) ==
    IF r.is_submitted
    THEN r
    ELSE [r EXCEPT !.student_answer = answer_data,
                   !.draft_answer = NoAnswer,
                   !.is_submitted = TRUE]

\* finalize_answer as it would be if it left the draft in place
finalize_answer_KeepsDraft(r, answer_data) ==
    [r EXCEPT !.student_answer = answer_data,
              !.is_submitted = TRUE]

\* QuestionResponse.finalize_answer on the instance
finalize_answer(r, answer_data) ==
    [r EXCEPT !.student_answer = answer_data,
              !.draft_answer = NoAnswer,
              !.is_submitted = TRUE]

\* response.finalize_answer(answer_data): save(update_fields=[...]) of the row
do_finalize_answer(db, r, answer_data) ==
    [db EXCEPT !.responses = (@ \ {r}) \cup {finalize_answer(r, answer_data)}]

\* session.deactivate() (exams): save(update_fields=['is_active'])
do_exam_session_deactivate(db, r) ==
    [db EXCEPT !.sessions = (@ \ {r}) \cup {exam_session_deactivate(r)}]

\* the JSON value a client sends as answer_data
AnswerData(x) == [answer |-> x, timestamp |-> NoTime]

(***************************************************************************)
(* Views (exams/views.py)                                                  *)
(***************************************************************************)
\* views.start_exam
do_view_start_exam(db, enrolled, t) ==
    IF ~exam_is_active(exam, t)
    THEN [db |-> db, ret |-> "This exam is not currently available."]
    ELSE IF ~enrolled
    THEN [db |-> db, ret |-> "You are not enrolled"]
    ELSE IF \E a \in db.attempts : /\ a.exam = ExamId /\ a.student = Student
                                   /\ a.status \in {NOT_STARTED, IN_PROGRESS}
    THEN [db |-> db, ret |-> "redirect:take_exam"]
    ELSE IF HasAttempt(db)
    THEN [db |-> db, ret |-> "IntegrityError"]
    ELSE [db |-> [db EXCEPT !.attempts =
                     @ \cup {NewAttempt(Cardinality(db.attempts) + 1)}],
          ret |-> "redirect:take_exam"]

\* take_exam as it would be if it stored the request's answer before it looked
\* at the time budget
take_exam_AnswerFirst(rows, a, method, question, answer, t) ==
    IF a.status = IN_PROGRESS /\ time_remaining(a, t) <= 0
    THEN [ responses |-> IF method = "POST" /\ question < NumQuestions
                         THEN SaveResponse(rows, a, question + 1,
                                           [answer |-> answer, timestamp |-> t])
                         ELSE rows,
           save |-> TRUE,
           inst |-> [a EXCEPT !.status = AUTO_SUBMITTED,
                              !.end_time = a.start_time
                                           + exam.duration * SecondsPerMinute],
           ret |-> "Time is up!" ]
    ELSE [responses |-> rows, save |-> FALSE, inst |-> a, ret |-> "render"]

\* views.take_exam up to attempt.save(): the response table, whether the
\* attempt is saved and as what, and the outcome.
\* UserDeviceSession.create_from_request(request) is called with one argument
\* where the classmethod takes (user, request): TypeError.  None + timedelta
\* is a TypeError too.  Neither has written anything yet.
take_exam(rows, a, method, question, answer, t) ==
    LET same(ret) == [responses |-> rows, save |-> FALSE, inst |-> a, ret |-> ret]
        submit(rs) == [ responses |-> rs, save |-> TRUE,
                        inst |-> [a EXCEPT !.status = SUBMITTED, !.end_time = t],
                        ret |-> "Exam completed successfully!" ]
    IN
    IF a.status = SUBMITTED THEN same("You have already completed this exam.")
    ELSE IF a.status = NOT_STARTED /\ requires_password_input(a)
    THEN same("redirect:exam_password")
    ELSE IF a.status = NOT_STARTED THEN same("TypeError")
    ELSE IF time_remaining(a, t) <= 0
    THEN IF a.start_time = NoTime
         THEN same("TypeError")
         ELSE [ responses |-> rows, save |-> TRUE,
                inst |-> [a EXCEPT !.status = AUTO_SUBMITTED,
                                   !.end_time = a.start_time
                                                + exam.duration * SecondsPerMinute],
                ret |-> "Time is up!" ]
    ELSE IF question >= NumQuestions THEN submit(rows)
    ELSE IF method = "POST"
    THEN LET saved == SaveResponse(rows, a, question + 1,
                                   [answer |-> answer, timestamp |-> t])
         IN  IF question + 1 < NumQuestions
             THEN [ responses |-> saved, save |-> FALSE, inst |-> a,
                    ret |-> "redirect:take_exam" ]
             ELSE submit(saved)
    ELSE same("render")

\* views.take_exam
do_take_exam(db, method, question, answer, t) ==
    LET r == take_exam(db.responses, AttemptOf(db), method, question, answer, t)
        db2 == [db EXCEPT !.responses = r.responses]
    IN  [ db |-> IF r.save THEN save(db2, r.inst, t).db ELSE db2, ret |-> r.ret ]

\* views.exam_password: no branch of it reaches attempt.start_exam
do_exam_password(db, method, password, t) ==
    IF AttemptOf(db).status # NOT_STARTED
    THEN [db |-> db, ret |-> "redirect:take_exam"]
    ELSE IF method = "POST"
    THEN [db |-> db, ret |-> "TypeError"]
    ELSE [db |-> db, ret |-> "render"]

\* views.submit_exam up to attempt.save()
submit_exam(a, t) ==
    IF a.status # SUBMITTED
    THEN [ save |-> TRUE, inst |-> [a EXCEPT !.status = SUBMITTED, !.end_time = t],
           ret |-> "Exam submitted successfully!" ]
    ELSE [ save |-> FALSE, inst |-> a, ret |-> "redirect:exam_attempt_detail" ]

\* views.submit_exam
do_submit_exam(db, t) ==
    LET r == submit_exam(AttemptOf(db), t)
    IN  [ db |-> IF r.save THEN save(db, r.inst, t).db ELSE db, ret |-> r.ret ]

\* views.api_save_response.  is_owner is FALSE for a student other than the
\* attempt's; the view reads neither the request's headers nor the attempt's
\* status.  The JSON body's answer_data carries no server timestamp.
do_api_save_response(db, is_owner, method, question, answer) ==
    IF ~is_owner
    THEN [db |-> db, ret |-> "403 Access denied"]
    ELSE IF method = "POST"
    THEN [ db |-> [db EXCEPT !.responses =
                      SaveResponse(@, AttemptOf(db), question,
                                   [answer |-> answer, timestamp |-> NoTime])],
           ret |-> "200 success" ]
    ELSE [db |-> db, ret |-> "405 Invalid method"]

(***************************************************************************)
(* core app: UserDeviceSession rows and ActiveExamSession rows             *)
(***************************************************************************)
CoreDB == [device_sessions |-> device_sessions, core_sessions |-> core_sessions]

\* should_timeout as it would be with >= 3600 in place of > 3600
should_timeout_Inclusive(d, t) == t - d.last_activity >= DeviceTimeout

\* UserDeviceSession.should_timeout
should_timeout(d, t) == t - d.last_activity > DeviceTimeout

\* UserDeviceSession.refresh_activity on the instance
device_refresh_activity(d, t) == [d EXCEPT !.last_activity = t]

\* device_session.refresh_activity() as it would be if it also refreshed the
\* exam sessions running on the device
do_device_refresh_activity_Cascades(cdb, d, t) ==
    [cdb EXCEPT
        !.device_sessions =
            { IF x.id = d.id THEN device_refresh_activity(d, t) ELSE x : x \in @ },
        !.core_sessions =
            { IF x.device_session = d.id THEN [x EXCEPT !.last_activity = t]
              ELSE x : x \in @ }]

\* device_session.refresh_activity(): save(update_fields=['last_activity'])
do_device_refresh_activity(cdb, d, t) ==
    [cdb EXCEPT !.device_sessions =
        { IF x.id = d.id THEN device_refresh_activity(d, t) ELSE x : x \in @ }]

\* UserDeviceSession.deactivate on the instance:
\* save(update_fields=['is_active', 'last_activity']) stamps the auto_now field
device_deactivate(d, t) == [d EXCEPT !.is_active = FALSE, !.last_activity = t]

\* core views.deactivate_device_session: session.deactivate()
do_deactivate_device_session(cdb, d, t) ==
    [cdb EXCEPT !.device_sessions =
        { IF x.id = d.id THEN device_deactivate(d, t) ELSE x : x \in @ }]

\* create_from_request as it would be with objects.create in place of
\* get_or_create and no unique_together
create_from_request_AlwaysCreates(cdb, user, request, t) ==
    LET row == [ id |-> Cardinality(cdb.device_sessions) + 1, user |-> user,
                 device_hash |-> generate_device_hash(request),
                 ip_address |-> request.ip,
                 last_activity |-> t, is_active |-> TRUE ]
    IN  [ db |-> [cdb EXCEPT !.device_sessions = @ \cup {row}],
          ret |-> row, created |-> TRUE ]

\* UserDeviceSession.create_from_request(user, request): get_or_create on
\* (user, device_hash), then refresh_activity when the row was found
create_from_request(cdb, user, request, t) ==
    LET h == generate_device_hash(request)
        found == { d \in cdb.device_sessions : d.user = user /\ d.device_hash = h }
    IN  IF found = {}
        THEN LET row == [ id |-> Cardinality(cdb.device_sessions) + 1,
                          user |-> user, device_hash |-> h,
                          ip_address |-> request.ip,
                          last_activity |-> t, is_active |-> TRUE ]
             IN  [ db |-> [cdb EXCEPT !.device_sessions = @ \cup {row}],
                   ret |-> row, created |-> TRUE ]
        ELSE LET d == CHOOSE d \in found : TRUE
             IN  [ db |-> do_device_refresh_activity(cdb, d, t),
                   ret |-> device_refresh_activity(d, t), created |-> FALSE ]

\* self.device_session.device_hash of a core ActiveExamSession row
SessionDeviceHash(cdb, s) ==
    (CHOOSE d \in cdb.device_sessions : d.id = s.device_session).device_hash

\* is_valid as it would be with <= 300 in place of < 300
is_valid_Inclusive(cdb, s, current_device_hash, t) ==
    /\ s.is_active
    /\ SessionDeviceHash(cdb, s) = current_device_hash
    /\ t - s.last_activity <= ActivityWindow

\* ActiveExamSession.is_valid (core)
is_valid(cdb, s, current_device_hash, t) ==
    /\ s.is_active
    /\ SessionDeviceHash(cdb, s) = current_device_hash
    /\ t - s.last_activity < ActivityWindow

\* ActiveExamSession.objects.create(user, exam, device_session, attempt):
\* is_active defaults to True, last_activity is auto_now.  refreshed_at is a
\* history field: the time of the row's creation or last refresh_activity.
NewCoreSession(a, d, t) ==
    [ user |-> a.student, exam |-> a.exam, device_session |-> d.id,
      attempt |-> a.id, last_activity |-> t, is_active |-> TRUE,
      refreshed_at |-> t ]

\* refresh_activity as it would be if the new timestamp were never saved
session_refresh_activity_NotSaved(s, t) == s

\* ActiveExamSession.refresh_activity (core) on the instance
session_refresh_activity(s, t) ==
    [s EXCEPT !.last_activity = t, !.refreshed_at = t]

\* session.refresh_activity(): save(update_fields=['last_activity'])
do_session_refresh_activity(cdb, s, t) ==
    [cdb EXCEPT !.core_sessions =
        { IF x = s THEN session_refresh_activity(s, t) ELSE x : x \in @ }]

\* ActiveExamSession.terminate (core) up to self.attempt.terminate_session:
\* save(update_fields=['is_active', 'last_activity']) stamps the auto_now field
session_terminate(s, t) == [s EXCEPT !.is_active = FALSE, !.last_activity = t]

\* session.terminate(reason) as it would be if it ended the session row and
\* left the attempt alone
do_session_terminate_SessionOnly(db, cdb, s, reason, t) ==
    [ cdb |-> [cdb EXCEPT !.core_sessions =
                  (@ \ {s}) \cup {session_terminate(s, t)}],
      db |-> db ]

\* session.terminate(reason) (core): the session row is saved inactive, then
\* self.attempt.terminate_session(reason) runs on the exams tables
do_session_terminate(db, cdb, s, reason, t) ==
    [ cdb |-> [cdb EXCEPT !.core_sessions =
                  (@ \ {s}) \cup {session_terminate(s, t)}],
      db |-> do_terminate_session(db, reason, t).db ]

(***************************************************************************)
(* MonitoringEvent and its review workflow                                 *)
(***************************************************************************)
EventTypes == {"TAB_SWITCH"}
\* MonitoringEvent.ReviewedStatus
PENDING == "PENDING"
REVIEWING == "REVIEWING"
APPROVED == "APPROVED"
VIOLATION == "VIOLATION"
FALSE_ALARM == "FALSE_ALARM"
ReviewedStatuses == {PENDING, REVIEWING, APPROVED, VIOLATION, FALSE_ALARM}
NoUser == "null"
Reviewers == {"staff1"}
DefaultSeverity == 5

FeedDB == [attempts |-> attempts, sessions |-> sessions, events |-> events]

\* MonitoringEvent.objects.create(attempt, event_type, severity):
\* reviewed_status defaults to PENDING and the review fields are empty; the
\* row's timestamp, evidence and description are read by no method here
create_event(fdb, a, event_type, severity, t) ==
    [fdb EXCEPT !.events = @ \cup
        { [ id |-> Cardinality(fdb.events) + 1, attempt |-> a.id,
            event_type |-> event_type, severity |-> severity,
            reviewed_status |-> PENDING, reviewed_by |-> NoUser,
            reviewed_at |-> NoTime, review_notes |-> "", action_taken |-> "" ] }]

\* views.proctoring_webhook: MonitoringEvent.objects.create is called with
\* event_data=..., which is not a field of the model (the field is evidence);
\* Model.__init__ raises TypeError, the view catches it and answers 400.
do_proctoring_webhook(fdb, a, event_type, severity, t) ==
    [db |-> fdb, ret |-> "400 error"]

\* MonitoringEvent.assign_for_review on the instance
assign_for_review(e, assigned_to) ==
    [e EXCEPT !.reviewed_status = REVIEWING, !.reviewed_by = assigned_to]

\* event.assign_for_review(assigned_to): save(update_fields=[...])
do_assign_for_review(fdb, e, assigned_to) ==
    [fdb EXCEPT !.events = (@ \ {e}) \cup {assign_for_review(e, assigned_to)}]

\* MonitoringEvent.complete_review on the instance
complete_review(e, status, notes, action_taken, t) ==
    [e EXCEPT !.reviewed_status = status,
              !.review_notes = notes,
              !.action_taken = action_taken,
              !.reviewed_at = t]

\* complete_review as it would be if a confirmed violation terminated the
\* attempt and its session
do_complete_review_Terminates(fdb, e, status, notes, action_taken, t) ==
    LET fdb2 == [fdb EXCEPT !.events =
                    (@ \ {e}) \cup {complete_review(e, status, notes,
                                                    action_taken, t)}]
    IN  IF status = VIOLATION
        THEN [fdb2 EXCEPT
                !.attempts = { IF a.id = e.attempt
                               THEN terminate_session(a, notes, t) ELSE a
                               : a \in @ },
                !.sessions = { IF r.attempt = e.attempt
                               THEN [r EXCEPT !.is_active = FALSE] ELSE r
                               : r \in @ }]
        ELSE fdb2

\* event.complete_review(status, notes, action_taken): save(update_fields=[...])
do_complete_review(fdb, e, status, notes, action_taken, t) ==
    [fdb EXCEPT !.events =
        (@ \ {e}) \cup {complete_review(e, status, notes, action_taken, t)}]

\* MonitoringEvent.is_resolved
is_resolved(e) == e.reviewed_status \in {APPROVED, VIOLATION, FALSE_ALARM}

(***************************************************************************)
(* Initial state: an empty database and one LIVE exam                      *)
(***************************************************************************)
NoInst == NewAttempt(0)

Init ==
    /\ now = 0
    /\ exam \in { [ exam_password |-> p, duration |-> ExamDuration,
                    status |-> "LIVE", start_date |-> 0 - SecondsPerMinute,
                    end_date |-> ExamEndTicks * SecondsPerMinute ] : p \in ExamPasswords }
    /\ attempts = {}
    /\ sessions = {}
    /\ responses = {}
    /\ uuid_count = 0
    /\ pc = [w \in Workers |-> "idle"]
    /\ inst = [w \in Workers |-> NoInst]
    /\ device_sessions = {}
    /\ core_sessions = {}
    /\ events = {}

\* the database becomes db
Commit(db) ==
    /\ attempts' = db.attempts
    /\ sessions' = db.sessions
    /\ responses' = db.responses
    /\ uuid_count' = db.uuid_count

(***************************************************************************)
(* Spec: every call runs alone                                             *)
(***************************************************************************)
\* the wall clock advances
Tick ==
    /\ now < MaxTicks * SecondsPerMinute
    /\ now' = now + SecondsPerMinute
    /\ UNCHANGED <<exam, events, device_sessions, core_sessions, attempts, sessions, responses, uuid_count, pc, inst>>

ViewStartExam(enrolled) ==
    /\ Commit(do_view_start_exam(DB, enrolled, now).db)
    /\ UNCHANGED <<now, exam, events, device_sessions, core_sessions, pc, inst>>

StartExam(device, password_attempt) ==
    /\ HasAttempt(DB)
    /\ LET r == do_start_exam(DB, device, password_attempt, now)
       IN  /\ r.db.uuid_count <= MaxTokens
           /\ AttemptOf(r.db).password_attempts <= MaxWrong
           /\ Commit(r.db)
    /\ UNCHANGED <<now, exam, events, device_sessions, core_sessions, pc, inst>>

TerminateSession(reason) ==
    /\ HasAttempt(DB)
    /\ Commit(do_terminate_session(DB, reason, now).db)
    /\ UNCHANGED <<now, exam, events, device_sessions, core_sessions, pc, inst>>

TakeExam(method, question, answer) ==
    /\ HasAttempt(DB)
    /\ Commit(do_take_exam(DB, method, question, answer, now).db)
    /\ UNCHANGED <<now, exam, events, device_sessions, core_sessions, pc, inst>>

ExamPassword(method, password) ==
    /\ HasAttempt(DB)
    /\ Commit(do_exam_password(DB, method, password, now).db)
    /\ UNCHANGED <<now, exam, events, device_sessions, core_sessions, pc, inst>>

ApiSaveResponse(is_owner, method, question, answer) ==
    /\ HasAttempt(DB)
    /\ Commit(do_api_save_response(DB, is_owner, method, question, answer).db)
    /\ UNCHANGED <<now, exam, events, device_sessions, core_sessions, pc, inst>>

SubmitExam ==
    /\ HasAttempt(DB)
    /\ Commit(do_submit_exam(DB, now).db)
    /\ UNCHANGED <<now, exam, events, device_sessions, core_sessions, pc, inst>>

Next ==
    \/ Tick
    \/ \E enrolled \in BOOLEAN : ViewStartExam(enrolled)
    \/ \E d \in Devices, p \in PasswordAttempts : StartExam(d, p)
    \/ \E reason \in Reasons : TerminateSession(reason)
    \/ \E m \in {"GET", "POST"}, q \in 0..NumQuestions, ans \in AnswerTexts :
          TakeExam(m, q, ans)
    \/ \E m \in {"GET", "POST"} : ExamPassword(m, <<"s">>)
    \/ \E n \in Questions, ans \in AnswerTexts :
          \/ ApiSaveResponse(TRUE, "POST", n, ans)
          \/ ApiSaveResponse(FALSE, "POST", n, ans)
          \/ ApiSaveResponse(TRUE, "GET", n, ans)
    \/ SubmitExam

Spec == Init /\ [][Next]_vars

(***************************************************************************)
(* SpecConc: two workers, one database.  A worker loads the attempt, changes *)
(* the instance in memory, and then goes through save(): the pre_save query  *)
(* (only an IN_PROGRESS instance issues one), the row write, the post_save   *)
(* reconciliation and, in terminate_session, the trailing update.  Each is   *)
(* its own database statement in autocommit mode; a worker may die between   *)
(* two of them.  The calls are start_exam, terminate_session and the         *)
(* submit_exam view, on an exam without password.                            *)
(***************************************************************************)
Idle(w) == pc[w] = "idle"

\* the worker enters save() with instance a
EnterSave(w, a, terminating) ==
    /\ inst' = [inst EXCEPT ![w] = a]
    /\ pc' = [pc EXCEPT ![w] = IF terminating THEN "t_write"
                                ELSE IF a.status = IN_PROGRESS THEN "pre_save"
                                ELSE "write"]

CStartExam(w, device, password_attempt) ==
    /\ Idle(w) /\ HasAttempt(DB)
    /\ LET r == start_exam(AttemptOf(DB), device, password_attempt, now,
                           uuid_count + 1)
       IN  /\ r.drew => uuid_count < MaxTokens
           /\ r.inst.password_attempts <= MaxWrong
           /\ uuid_count' = uuid_count + (IF r.drew THEN 1 ELSE 0)
           /\ EnterSave(w, r.inst, FALSE)
    /\ UNCHANGED <<now, exam, events, device_sessions, core_sessions, attempts, sessions, responses>>

CTerminateSession(w, reason) ==
    /\ Idle(w) /\ HasAttempt(DB)
    /\ EnterSave(w, terminate_session(AttemptOf(DB), reason, now), TRUE)
    /\ UNCHANGED <<now, exam, events, device_sessions, core_sessions, attempts, sessions, responses, uuid_count>>

CSubmitExam(w) ==
    /\ Idle(w) /\ HasAttempt(DB)
    /\ LET r == submit_exam(AttemptOf(DB), now)
       IN  IF r.save THEN EnterSave(w, r.inst, FALSE) ELSE UNCHANGED <<pc, inst>>
    /\ UNCHANGED <<now, exam, events, device_sessions, core_sessions, attempts, sessions, responses, uuid_count>>

\* pre_save receiver: raises ValidationError, and the call ends, or returns
CPreSave(w) ==
    /\ pc[w] = "pre_save"
    /\ IF PreSaveRaises(sessions, inst[w])
       THEN /\ pc' = [pc EXCEPT ![w] = "idle"]
            /\ inst' = [inst EXCEPT ![w] = NoInst]
       ELSE /\ pc' = [pc EXCEPT ![w] = "write"]
            /\ UNCHANGED inst
    /\ UNCHANGED <<now, exam, events, device_sessions, core_sessions, attempts, sessions, responses, uuid_count>>

\* the UPDATE of the attempt's row
CWrite(w) ==
    /\ pc[w] \in {"write", "t_write"}
    /\ attempts' = WriteRow(attempts, inst[w])
    /\ pc' = [pc EXCEPT ![w] = IF pc[w] = "write" THEN "post_save" ELSE "t_post_save"]
    /\ UNCHANGED <<now, exam, events, device_sessions, core_sessions, sessions, responses, uuid_count, inst>>

\* post_save receiver manage_active_sessions
CPostSave(w) ==
    /\ pc[w] \in {"post_save", "t_post_save"}
    /\ sessions' = manage_active_sessions(sessions, inst[w], now, uuid_count + 1)
    /\ uuid_count' = uuid_count + (IF PostSaveDraws(inst[w]) THEN 1 ELSE 0)
    /\ IF pc[w] = "post_save"
       THEN /\ pc' = [pc EXCEPT ![w] = "idle"]
            /\ inst' = [inst EXCEPT ![w] = NoInst]
       ELSE /\ pc' = [pc EXCEPT ![w] = "t_update"]
            /\ UNCHANGED inst
    /\ UNCHANGED <<now, exam, events, device_sessions, core_sessions, attempts, responses>>

\* the trailing filter(...).update(is_active=False) of terminate_session
CTermUpdate(w) ==
    /\ pc[w] = "t_update"
    /\ sessions' = TerminateUpdate(sessions, inst[w])
    /\ pc' = [pc EXCEPT ![w] = "idle"]
    /\ inst' = [inst EXCEPT ![w] = NoInst]
    /\ UNCHANGED <<now, exam, events, device_sessions, core_sessions, attempts, responses, uuid_count>>

\* the worker dies after the row write and before the statements that follow
CCrash(w) ==
    /\ pc[w] \in {"post_save", "t_post_save", "t_update"}
    /\ pc' = [pc EXCEPT ![w] = "idle"]
    /\ inst' = [inst EXCEPT ![w] = NoInst]
    /\ UNCHANGED <<now, exam, events, device_sessions, core_sessions, attempts, sessions, responses, uuid_count>>

NextConc ==
    \/ \E enrolled \in BOOLEAN : ViewStartExam(enrolled)
    \/ \E w \in Workers, d \in Devices : CStartExam(w, d, NoPassword)
    \/ \E w \in Workers, reason \in Reasons : CTerminateSession(w, reason)
    \/ \E w \in Workers : CSubmitExam(w)
    \/ \E w \in Workers : CPreSave(w)
    \/ \E w \in Workers : CWrite(w)
    \/ \E w \in Workers : CPostSave(w)
    \/ \E w \in Workers : CTermUpdate(w)
    \/ \E w \in Workers : CCrash(w)

\* the exam of SpecConc has no password, and its clock stands still
InitConc == Init /\ ~requires_password(exam)

SpecConc == InitConc /\ [][NextConc]_vars

(***************************************************************************)
(* SpecCore: device sessions, core exam sessions and the clock             *)
(***************************************************************************)
CommitCore(cdb) ==
    /\ device_sessions' = cdb.device_sessions
    /\ core_sessions' = cdb.core_sessions

\* the wall clock moves to a later instant
CoreTick(t) ==
    /\ t > now
    /\ now' = t
    /\ UNCHANGED <<exam, events, device_sessions, core_sessions, attempts, sessions,
                   responses, uuid_count, pc, inst>>

CreateFromRequest(request) ==
    /\ CommitCore(create_from_request(CoreDB, Student, request, now).db)
    /\ UNCHANGED <<now, exam, events, attempts, sessions, responses, uuid_count, pc, inst>>

DeactivateDeviceSession(d) ==
    /\ CommitCore(do_deactivate_device_session(CoreDB, d, now))
    /\ UNCHANGED <<now, exam, events, attempts, sessions, responses, uuid_count, pc, inst>>

CoreCreateSession(d) ==
    /\ HasAttempt(DB)
    /\ ~ \E s \in core_sessions : s.user = Student /\ s.exam = ExamId
    /\ core_sessions' = core_sessions \cup {NewCoreSession(AttemptOf(DB), d, now)}
    /\ UNCHANGED <<now, exam, events, device_sessions, attempts, sessions, responses,
                   uuid_count, pc, inst>>

CoreRefreshActivity(s) ==
    /\ CommitCore(do_session_refresh_activity(CoreDB, s, now))
    /\ UNCHANGED <<now, exam, events, attempts, sessions, responses, uuid_count, pc, inst>>

CoreTerminate(s, reason) ==
    /\ LET r == do_session_terminate(DB, CoreDB, s, reason, now)
       IN  /\ core_sessions' = r.cdb.core_sessions
           /\ Commit(r.db)
    /\ UNCHANGED <<now, exam, events, device_sessions, pc, inst>>

NextCore ==
    \/ \E t \in CoreInstants : CoreTick(t)
    \/ ViewStartExam(TRUE)
    \/ \E q \in Requests : CreateFromRequest(q)
    \/ \E d \in device_sessions : DeactivateDeviceSession(d)
    \/ \E d \in device_sessions : CoreCreateSession(d)
    \/ \E s \in core_sessions : CoreRefreshActivity(s)
    \/ \E s \in core_sessions : CoreTerminate(s, "Session terminated by system")

InitCore == Init /\ ~requires_password(exam)

SpecCore == InitCore /\ [][NextCore]_vars

(***************************************************************************)
(* SpecStore: the response store of one attempt                            *)
(***************************************************************************)
SaveDraft(r, x) ==
    /\ r.auto_save_count < MaxDrafts
    /\ Commit(do_save_draft(DB, r, AnswerData(x), now))
    /\ UNCHANGED <<now, exam, events, device_sessions, core_sessions, pc, inst>>

FinalizeAnswer(r, y) ==
    /\ Commit(do_finalize_answer(DB, r, AnswerData(y)))
    /\ UNCHANGED <<now, exam, events, device_sessions, core_sessions, pc, inst>>

NextStore ==
    \/ Tick
    \/ ViewStartExam(TRUE)
    \/ StartExam("dA", NoPassword)
    \/ SubmitExam
    \/ \E n \in Questions, ans \in AnswerTexts :
          ApiSaveResponse(TRUE, "POST", n, ans)
    \/ \E r \in responses, x \in DraftAnswers : SaveDraft(r, x)
    \/ \E r \in responses, y \in DraftAnswers : FinalizeAnswer(r, y)

InitStore == Init /\ ~requires_password(exam)

SpecStore == InitStore /\ [][NextStore]_vars

(***************************************************************************)
(* SpecFeed: monitoring events recorded and reviewed during an attempt     *)
(***************************************************************************)
RecordEvent(event_type) ==
    /\ HasAttempt(DB)
    /\ Cardinality(events) < MaxEvents
    /\ events' = create_event(FeedDB, AttemptOf(DB), event_type,
                              DefaultSeverity, now).events
    /\ UNCHANGED <<now, exam, device_sessions, core_sessions, attempts, sessions,
                   responses, uuid_count, pc, inst>>

ProctoringWebhook(event_type) ==
    /\ HasAttempt(DB)
    /\ events' = do_proctoring_webhook(FeedDB, AttemptOf(DB), event_type,
                                       DefaultSeverity, now).db.events
    /\ UNCHANGED <<now, exam, device_sessions, core_sessions, attempts, sessions,
                   responses, uuid_count, pc, inst>>

AssignForReview(e, assigned_to) ==
    /\ events' = do_assign_for_review(FeedDB, e, assigned_to).events
    /\ UNCHANGED <<now, exam, device_sessions, core_sessions, attempts, sessions,
                   responses, uuid_count, pc, inst>>

CompleteReview(e, status) ==
    /\ events' = do_complete_review(FeedDB, e, status, "notes", "warned",
                                    now).events
    /\ UNCHANGED <<now, exam, device_sessions, core_sessions, attempts, sessions,
                   responses, uuid_count, pc, inst>>

NextFeed ==
    \/ Tick
    \/ ViewStartExam(TRUE)
    \/ StartExam("dA", NoPassword)
    \/ TerminateSession("policy violation")
    \/ \E ty \in EventTypes : RecordEvent(ty)
    \/ \E ty \in EventTypes : ProctoringWebhook(ty)
    \/ \E e \in events, u \in Reviewers : AssignForReview(e, u)
    \/ \E e \in events, st \in ReviewedStatuses : CompleteReview(e, st)

InitFeed == Init /\ ~requires_password(exam)

SpecFeed == InitFeed /\ [][NextFeed]_vars

(***************************************************************************)
(* SpecAudit: every operation that ends a session row, in both apps        *)
(***************************************************************************)
ExamSessionDeactivate(r) ==
    /\ Commit(do_exam_session_deactivate(DB, r))
    /\ UNCHANGED <<now, exam, events, device_sessions, core_sessions, pc, inst>>

NextAudit ==
    \/ Tick
    \/ ViewStartExam(TRUE)
    \/ StartExam("dA", NoPassword)
    \/ SubmitExam
    \/ TerminateSession("policy violation")
    \/ \E r \in sessions : ExamSessionDeactivate(r)
    \/ \E q \in Requests : q.ip = "10.0.0.1" /\ CreateFromRequest(q)
    \/ \E d \in device_sessions : DeactivateDeviceSession(d)
    \/ \E d \in device_sessions : CoreCreateSession(d)
    \/ \E s \in core_sessions : CoreTerminate(s, "Session terminated by system")

InitAudit == Init /\ ~requires_password(exam)

SpecAudit == InitAudit /\ [][NextAudit]_vars

(***************************************************************************)
(* Properties                                                              *)
(***************************************************************************)
Att == AttemptOf(DB)

\* the tracker rows of db for the attempt's (student, exam)
RowsFor(db, a) == { r \in db.sessions : r.user = a.student /\ r.exam = a.exam }

\* the four fields device A's start left on the attempt
SameStart(a, b) ==
    /\ a.status = b.status
    /\ a.start_time = b.start_time
    /\ a.device_session = b.device_session
    /\ a.session_token = b.session_token

\* C1: at every instant of every interleaving of start_exam, submit and
\* terminate_session calls from two devices, no (student, exam) pair has two
\* ActiveExamSession rows with is_active = True.
C1_AtMostOneActive ==
    \A r1 \in sessions, r2 \in sessions :
        (r1.user = r2.user /\ r1.exam = r2.exam /\ r1.is_active /\ r2.is_active)
            => r1 = r2

\* C1 witness: device A's row is active while a start from another device has
\* written the attempt and is about to reconcile the tracker.
C1_Witness ==
    \E r \in sessions, w \in Workers :
        /\ r.is_active
        /\ pc[w] = "post_save"
        /\ inst[w].status = IN_PROGRESS
        /\ inst[w].device_session # r.device_session

\* C2: after every attempt transition the attempt is IN_PROGRESS if and only
\* if an active ActiveExamSession row points at it.
C2_InProgressIffActive ==
    HasAttempt(DB) =>
        (Att.status = IN_PROGRESS
            <=> \E r \in sessions : r.is_active /\ r.attempt = Att.id)

\* C3: while the attempt is IN_PROGRESS on device A, start_exam from any other
\* device does not return success and leaves status, start_time,
\* device_session and session_token as they were.
C3_SecondDeviceRejected ==
    (HasAttempt(DB) /\ Att.status = IN_PROGRESS /\ Att.device_session # NoDevice) =>
        \A d \in Devices \ {Att.device_session}, p \in PasswordAttempts :
            LET r == do_start_exam(DB, d, p, now)
            IN  ~r.success /\ SameStart(AttemptOf(r.db), Att)

\* C4: no persisted state has the attempt IN_PROGRESS with a bound device and
\* no active tracker row, or an active tracker row for an attempt whose
\* persisted status is terminal.
C4_WriteAndReconcileAtomic ==
    HasAttempt(DB) =>
        /\ ~ ( /\ Att.status = IN_PROGRESS
               /\ Att.device_session # NoDevice
               /\ ~ \E r \in sessions : r.is_active /\ r.attempt = Att.id )
        /\ ~ ( /\ Att.status \in Terminal
               /\ \E r \in sessions : r.is_active /\ r.attempt = Att.id )

\* C5: when an attempt has been saved with a terminal status, every
\* ActiveExamSession row of its (student, exam) is inactive.
C5_TerminalDeactivates ==
    (HasAttempt(DB) /\ Att.status \in Terminal) =>
        \A r \in RowsFor(DB, Att) : ~r.is_active

\* C6: once an IN_PROGRESS attempt with a device_session has been saved,
\* exactly one ActiveExamSession row exists for its (student, exam); it is
\* active, points at the attempt and carries its session_token and
\* device_session.
C6_SavedInProgressHasItsRow ==
    (HasAttempt(DB) /\ Att.status = IN_PROGRESS /\ Att.device_session # NoDevice) =>
        /\ Cardinality(RowsFor(DB, Att)) = 1
        /\ \A r \in RowsFor(DB, Att) :
            /\ r.is_active
            /\ r.attempt = Att.id
            /\ r.session_token = Att.session_token
            /\ r.device_session = Att.device_session

\* C6 witness: the row was created by one start and updated by a later one.
C6_Witness ==
    /\ HasAttempt(DB) /\ Att.status = IN_PROGRESS
    /\ \E r \in sessions : r.is_active /\ r.session_token = 2
                           /\ r.session_token = Att.session_token

\* the start_exam(None), start_exam(wrong), start_exam(correct) sequence of
\* model-method calls from one device on database db
ScenarioA(db, d, t) ==
    LET r1 == do_start_exam(db, d, NoPassword, t)
        r2 == do_start_exam(r1.db, d, <<"x">>, t)
    IN  do_start_exam(r2.db, d, exam.exam_password, t)

\* C7 (first half): on a fresh attempt of an exam with a password, the
\* sequence no password, wrong password, correct password ends IN_PROGRESS
\* with start_time set, password_attempts = 1 and an active tracker row.
C7_MethodSequenceStarts ==
    (HasAttempt(DB) /\ requires_password(exam) /\ Att = NewAttempt(Att.id)) =>
        \A d \in Devices :
            LET r == ScenarioA(DB, d, now)
                a == AttemptOf(r.db)
            IN  /\ r.success
                /\ a.status = IN_PROGRESS
                /\ a.start_time # NoTime
                /\ a.password_attempts = 1
                /\ \E x \in r.db.sessions : x.is_active /\ x.attempt = a.id

\* C7 (second half): an attempt in PASSWORD_REQUIRED is brought to
\* IN_PROGRESS by posting the correct password to the exam_password view.
C7_PasswordViewStarts ==
    (HasAttempt(DB) /\ Att.status = PASSWORD_REQUIRED) =>
        AttemptOf(do_exam_password(DB, "POST", exam.exam_password, now).db).status
            = IN_PROGRESS

\* C7: both halves.
C7_PasswordGateOpens == C7_MethodSequenceStarts /\ C7_PasswordViewStarts

\* C8: start_exam without a password on an exam that requires one returns
\* failure, makes the status PASSWORD_REQUIRED and leaves password_attempts,
\* start_time, device_session and session_token unchanged.
C8_MissingPassword ==
    (HasAttempt(DB) /\ requires_password(exam)) =>
        \A d \in Devices, p \in {NoPassword, <<>>} :
            LET r == do_start_exam(DB, d, p, now)
                a == AttemptOf(r.db)
            IN  /\ ~r.success
                /\ a.status = PASSWORD_REQUIRED
                /\ a.password_attempts = Att.password_attempts
                /\ a.start_time = Att.start_time
                /\ a.device_session = Att.device_session
                /\ a.session_token = Att.session_token

\* C8 witness: the call has been made on an attempt that was in progress.
C8_Witness ==
    /\ HasAttempt(DB) /\ Att.status = PASSWORD_REQUIRED
    /\ Att.start_time # NoTime

\* C9: start_exam with a non-matching password returns failure, raises the
\* persisted password_attempts by exactly 1, stamps last_password_attempt and
\* leaves status, start_time, device_session and session_token unchanged.
C9_WrongPassword ==
    (HasAttempt(DB) /\ requires_password(exam)) =>
        \A d \in Devices, p \in PasswordAttempts :
            (~Falsy(p) /\ p # exam.exam_password) =>
                LET r == do_start_exam(DB, d, p, now)
                    a == AttemptOf(r.db)
                IN  /\ ~r.success
                    /\ a.password_attempts = Att.password_attempts + 1
                    /\ a.last_password_attempt = now
                    /\ SameStart(a, Att)

\* C9 witness: a wrong password has been counted on a running attempt.
C9_Witness ==
    /\ HasAttempt(DB) /\ Att.password_attempts = 1
    /\ Att.last_password_attempt = now
    /\ Att.status = IN_PROGRESS

\* C10: start_exam on a NOT_STARTED or PASSWORD_REQUIRED attempt, with the
\* correct password or on an exam that needs none, returns success, sets
\* IN_PROGRESS, start_time = now, binds the device and sets a session_token
\* that no earlier uuid4 draw produced.
C10_SuccessfulStart ==
    (HasAttempt(DB) /\ Att.status \in {NOT_STARTED, PASSWORD_REQUIRED}) =>
        \A d \in Devices, p \in PasswordAttempts :
            (requires_password(exam) => p = exam.exam_password) =>
                LET r == do_start_exam(DB, d, p, now)
                    a == AttemptOf(r.db)
                IN  /\ r.success
                    /\ a.status = IN_PROGRESS
                    /\ a.start_time = now
                    /\ a.device_session = d
                    /\ a.session_token # NoToken
                    /\ a.session_token \notin 1..uuid_count
                    /\ \A x \in attempts \cup sessions :
                           x.session_token # a.session_token

\* C10 witness: an attempt that went back to PASSWORD_REQUIRED after a first
\* start has been started again and carries the second token.
C10_Witness ==
    /\ HasAttempt(DB) /\ Att.status = IN_PROGRESS /\ Att.session_token = 2
    /\ requires_password(exam)
    /\ Att.start_time = now /\ now > 0

\* C11: terminate_session(reason) on an IN_PROGRESS attempt leaves it
\* TERMINATED with termination_reason = reason and end_time = now, and the
\* ActiveExamSession of its (student, exam) inactive.
C11_TerminateSession ==
    (HasAttempt(DB) /\ Att.status = IN_PROGRESS) =>
        \A reason \in Reasons :
            LET r == do_terminate_session(DB, reason, now)
                a == AttemptOf(r.db)
            IN  /\ a.status = TERMINATED
                /\ a.termination_reason = reason
                /\ a.end_time = now
                /\ RowsFor(r.db, a) # {}
                /\ \A x \in RowsFor(r.db, a) : ~x.is_active

\* C11 witness: a started attempt has been terminated for a policy violation
\* a minute after it started.
C11_Witness ==
    /\ HasAttempt(DB) /\ Att.status = TERMINATED
    /\ Att.termination_reason = "policy violation"
    /\ Att.start_time # NoTime /\ Att.end_time = now /\ now > Att.start_time
    /\ \E x \in RowsFor(DB, Att) : ~x.is_active

\* C12: terminate_session on an attempt that is already TERMINATED changes
\* neither status, termination_reason nor end_time, whatever the reason and
\* the time of the second call.
C12_TerminateIdempotent ==
    (HasAttempt(DB) /\ Att.status = TERMINATED) =>
        \A reason \in Reasons :
            LET a == AttemptOf(do_terminate_session(DB, reason, now).db)
            IN  /\ a.status = Att.status
                /\ a.termination_reason = Att.termination_reason
                /\ a.end_time = Att.end_time

\* C13: once the attempt is SUBMITTED, AUTO_SUBMITTED or TERMINATED no step
\* changes its status or makes an ActiveExamSession of it active again.
C13_TerminalAbsorbing ==
    [][ (HasAttempt(DB) /\ Att.status \in Terminal) =>
            /\ Att'.status = Att.status
            /\ \A x \in sessions' :
                   (x.attempt = Att.id /\ x.is_active) => x \in sessions ]_vars

\* C14: at every current time time_remaining is
\* max(0, duration*60 - elapsed) for an IN_PROGRESS attempt and 0 in every
\* other status; it is never negative and is 0 once elapsed >= duration.
C14_TimeRemaining ==
    HasAttempt(DB) =>
        \A k \in 0..(ExamDuration + 1) :
            LET t == now + k * SecondsPerMinute
                left == (exam.duration * SecondsPerMinute) - (t - Att.start_time)
            IN  /\ time_remaining(Att, t) >= 0
                /\ Att.status = IN_PROGRESS =>
                       time_remaining(Att, t) = IF left > 0 THEN left ELSE 0
                /\ Att.status # IN_PROGRESS => time_remaining(Att, t) = 0
                /\ (Att.status = IN_PROGRESS /\ left <= 0) =>
                       time_remaining(Att, t) = 0

\* C14 witness: an attempt still IN_PROGRESS when its duration has elapsed.
C14_Witness ==
    /\ HasAttempt(DB) /\ Att.status = IN_PROGRESS
    /\ now - Att.start_time >= exam.duration * SecondsPerMinute

\* C15: can_access_from_device(h) is true exactly when no device is bound,
\* or the status is not IN_PROGRESS, or the bound device's hash is h; for an
\* IN_PROGRESS attempt bound to a device it is false for every other hash.
C15_CanAccessFromDevice ==
    HasAttempt(DB) =>
        \A h \in DeviceHashes :
            /\ can_access_from_device(Att, h)
                   <=> \/ Att.device_session = NoDevice
                       \/ Att.status # IN_PROGRESS
                       \/ device_hash(Att.device_session) = h
            /\ (Att.status = IN_PROGRESS /\ Att.device_session # NoDevice
                    /\ h # device_hash(Att.device_session))
                   => ~can_access_from_device(Att, h)

\* C15 witness: a finished attempt that is still bound to its device.
C15_Witness ==
    /\ HasAttempt(DB) /\ Att.status = SUBMITTED
    /\ Att.device_session = "dA"

\* C16: a take_exam or api_save_response request from a device whose hash is
\* not the bound device's never writes a QuestionResponse and never changes
\* the status of an IN_PROGRESS attempt.  (take_exam reads the request's
\* headers only for a NOT_STARTED attempt, api_save_response never.)
C16_DeviceGuardApplied ==
    (HasAttempt(DB) /\ Att.status = IN_PROGRESS /\ Att.device_session # NoDevice) =>
        \A q \in Requests :
            ~can_access_from_device(Att, generate_device_hash(q)) =>
                \A m \in {"GET", "POST"}, n \in Questions, ans \in AnswerTexts :
                    LET r1 == do_take_exam(DB, m, n - 1, ans, now)
                        r2 == do_api_save_response(DB, TRUE, m, n, ans)
                    IN  /\ r1.db.responses = responses
                        /\ AttemptOf(r1.db).status = Att.status
                        /\ r2.db.responses = responses
                        /\ AttemptOf(r2.db).status = Att.status

\* C17: is_valid(h) of a core ActiveExamSession is true if and only if the
\* row is active, its device_session's device_hash is h and fewer than 300
\* seconds have passed since last_activity.
C17_IsValid ==
    \A s \in core_sessions, h \in DeviceHashes :
        is_valid(CoreDB, s, h, now)
            <=> /\ s.is_active
                /\ \E d \in device_sessions :
                       d.id = s.device_session /\ d.device_hash = h
                /\ now - s.last_activity < ActivityWindow

\* C17 witness: an active session exactly 300 seconds after its last activity.
C17_Witness ==
    \E s \in core_sessions :
        s.is_active /\ now - s.last_activity = ActivityWindow

\* C18: a session on which refresh_activity has not been called for 5
\* minutes is invalid for every device hash, and right after refresh_activity
\* an active session is valid for its bound device's hash.
C18_HeartbeatWindow ==
    \A s \in core_sessions :
        /\ now - s.refreshed_at >= ActivityWindow =>
               \A h \in DeviceHashes : ~is_valid(CoreDB, s, h, now)
        /\ s.is_active =>
               LET cdb == do_session_refresh_activity(CoreDB, s, now)
                   fresh == session_refresh_activity(s, now)
               IN  /\ fresh \in cdb.core_sessions
                   /\ is_valid(cdb, fresh, SessionDeviceHash(CoreDB, s), now)

\* C18 witness: an active session that was refreshed once and then left
\* alone for more than 5 minutes.
C18_Witness ==
    \E s \in core_sessions :
        /\ s.is_active /\ s.refreshed_at > 0
        /\ now - s.refreshed_at >= ActivityWindow

\* C19: refreshing a UserDeviceSession (refresh_activity, or
\* create_from_request on a known device) changes no ActiveExamSession's
\* last_activity or is_valid result, and refreshing an ActiveExamSession
\* changes no UserDeviceSession's last_activity or should_timeout.
C19_WindowsIndependent ==
    /\ \A d \in device_sessions :
           LET cdb == do_device_refresh_activity(CoreDB, d, now)
           IN  /\ cdb.core_sessions = core_sessions
               /\ \A s \in core_sessions, h \in DeviceHashes :
                      is_valid(cdb, s, h, now) <=> is_valid(CoreDB, s, h, now)
    /\ \A q \in Requests :
           (\E d \in device_sessions : d.device_hash = generate_device_hash(q)) =>
               LET cdb == create_from_request(CoreDB, Student, q, now).db
               IN  /\ cdb.core_sessions = core_sessions
                   /\ \A s \in core_sessions, h \in DeviceHashes :
                          is_valid(cdb, s, h, now) <=> is_valid(CoreDB, s, h, now)
    /\ \A s \in core_sessions :
           LET cdb == do_session_refresh_activity(CoreDB, s, now)
           IN  /\ cdb.device_sessions = device_sessions
               /\ \A d \in device_sessions :
                      \E e \in cdb.device_sessions :
                          /\ e.id = d.id
                          /\ e.last_activity = d.last_activity
                          /\ should_timeout(e, now) <=> should_timeout(d, now)

\* C19 witness: the device was refreshed just now while the exam session
\* running on it has been idle for 5 minutes or more.
C19_Witness ==
    \E s \in core_sessions, d \in device_sessions :
        /\ s.device_session = d.id /\ s.is_active
        /\ d.last_activity = now
        /\ now - s.last_activity >= ActivityWindow

\* C20: there is at most one UserDeviceSession per (user, device_hash); a
\* request that hashes to an existing row returns that row with
\* last_activity refreshed and creates nothing, a request with a new hash
\* creates exactly one row.
C20_OneRowPerDevice ==
    /\ \A d1 \in device_sessions, d2 \in device_sessions :
           (d1.user = d2.user /\ d1.device_hash = d2.device_hash) => d1 = d2
    /\ \A q \in Requests :
           LET r == create_from_request(CoreDB, Student, q, now)
               old == { d \in device_sessions :
                          d.user = Student
                          /\ d.device_hash = generate_device_hash(q) }
           IN  IF old # {}
               THEN /\ ~r.created
                    /\ \E d \in old : r.ret = [d EXCEPT !.last_activity = now]
                    /\ r.ret \in r.db.device_sessions
                    /\ { d.id : d \in r.db.device_sessions }
                           = { d.id : d \in device_sessions }
                    /\ Cardinality(r.db.device_sessions)
                           = Cardinality(device_sessions)
                    /\ device_sessions \ old \subseteq r.db.device_sessions
               ELSE /\ r.created
                    /\ r.db.device_sessions \ device_sessions = {r.ret}
                    /\ device_sessions \subseteq r.db.device_sessions
                    /\ r.ret.device_hash = generate_device_hash(q)
                    /\ r.ret.user = Student

\* C20 witness: both devices are known and one of them has just been seen
\* again, after the clock moved.
C20_Witness ==
    /\ Cardinality(device_sessions) = 2
    /\ \E d \in device_sessions : d.last_activity = now /\ now > 0

\* C21: should_timeout of a UserDeviceSession is false while at most 3600
\* seconds have passed since last_activity, true once more than 3600 seconds
\* have passed, and false again right after refresh_activity.
C21_ShouldTimeout ==
    \A d \in device_sessions :
        /\ now - d.last_activity <= DeviceTimeout => ~should_timeout(d, now)
        /\ now - d.last_activity > DeviceTimeout => should_timeout(d, now)
        /\ \A e \in do_device_refresh_activity(CoreDB, d, now).device_sessions :
               e.id = d.id => ~should_timeout(e, now)

\* C21 witness: one device has been idle for more than an hour, another for
\* exactly an hour.
C21_Witness ==
    \E d \in device_sessions, e \in device_sessions :
        /\ now - d.last_activity > DeviceTimeout
        /\ now - e.last_activity = DeviceTimeout

\* C22: save_draft(a) sets draft_answer to a, raises auto_save_count by
\* exactly 1, stamps last_auto_save, and leaves is_submitted, student_answer
\* and points_awarded (and every other response) unchanged.
C22_SaveDraft ==
    \A r \in responses, x \in DraftAnswers :
        LET db2 == do_save_draft(DB, r, AnswerData(x), now)
        IN  /\ Cardinality(db2.responses) = Cardinality(responses)
            /\ responses \ {r} \subseteq db2.responses
            /\ \A r2 \in db2.responses \ (responses \ {r}) :
                   /\ r2.attempt = r.attempt /\ r2.question = r.question
                   /\ r2.draft_answer = AnswerData(x)
                   /\ r2.auto_save_count = r.auto_save_count + 1
                   /\ r2.last_auto_save = now
                   /\ r2.is_submitted = r.is_submitted
                   /\ r2.student_answer = r.student_answer
                   /\ r2.points_awarded = r.points_awarded

\* C22 witness: a draft saved a minute after the answer was finalized, and
\* different from it.
C22_Witness ==
    \E r \in responses :
        /\ r.is_submitted /\ r.draft_answer # NoAnswer
        /\ r.draft_answer # r.student_answer
        /\ r.last_auto_save = now /\ now > 0

\* C23: after finalize_answer(y), whatever drafts were saved before,
\* student_answer is y, draft_answer is None and is_submitted is true; after
\* save_draft(x), draft_answer is x.
C23_FinalizeAnswer ==
    \A r \in responses :
        /\ \A y \in DraftAnswers :
               \E r2 \in do_finalize_answer(DB, r, AnswerData(y)).responses :
                   /\ r2.attempt = r.attempt /\ r2.question = r.question
                   /\ r2.student_answer = AnswerData(y)
                   /\ r2.draft_answer = NoAnswer
                   /\ r2.is_submitted
        /\ \A x \in DraftAnswers :
               \E r2 \in do_save_draft(DB, r, AnswerData(x), now).responses :
                   /\ r2.attempt = r.attempt /\ r2.question = r.question
                   /\ r2.draft_answer = AnswerData(x)

\* C23 witness: a response finalized as "b" after drafts had been saved.
C23_Witness ==
    \E r \in responses :
        /\ r.is_submitted /\ r.auto_save_count > 0
        /\ r.draft_answer = NoAnswer
        /\ r.student_answer = AnswerData("b")

\* C24: an IN_PROGRESS attempt has exactly one QuestionResponse row for each
\* question of the exam (the rows exist from the start and the set never
\* changes).
C24_ResponsesPreallocated ==
    (HasAttempt(DB) /\ Att.status = IN_PROGRESS) =>
        \A n \in Questions :
            Cardinality({ r \in responses :
                            r.attempt = Att.id /\ r.question = n }) = 1

C26_EventsDoNotMoveAttempt ==
    HasAttempt(DB) =>
        LET same(fdb) ==
                /\ AttemptOf(fdb).status = Att.status
                /\ AttemptOf(fdb).end_time = Att.end_time
                /\ AttemptOf(fdb).termination_reason = Att.termination_reason
                /\ fdb.attempts = attempts
                /\ fdb.sessions = sessions
        IN  /\ \A ty \in EventTypes :
                   /\ same(create_event(FeedDB, Att, ty, DefaultSeverity, now))
                   /\ same(do_proctoring_webhook(FeedDB, Att, ty,
                                                 DefaultSeverity, now).db)
            /\ \A e \in events :
                   /\ \A u \in Reviewers : same(do_assign_for_review(FeedDB, e, u))
                   /\ \A st \in ReviewedStatuses :
                          same(do_complete_review(FeedDB, e, st, "notes",
                                                  "warned", now))

\* C26 witness: a violation has been confirmed on an event of an attempt that
\* is still IN_PROGRESS with its session active.
C26_Witness ==
    /\ HasAttempt(DB) /\ Att.status = IN_PROGRESS
    /\ \E r \in sessions : r.attempt = Att.id /\ r.is_active
    /\ \E e \in events : e.attempt = Att.id /\ e.reviewed_status = VIOLATION

\* C27: after complete_review(status, notes, action_taken), for every status
\* value a caller can pass, reviewed_status is APPROVED, VIOLATION or
\* FALSE_ALARM (is_resolved is true) and reviewed_at is set.
C27_ReviewResolves ==
    \A e \in events, st \in ReviewedStatuses :
        \A e2 \in do_complete_review(FeedDB, e, st, "notes", "warned",
                                     now).events :
            e2.id = e.id =>
                /\ e2.reviewed_status \in {APPROVED, VIOLATION, FALSE_ALARM}
                /\ is_resolved(e2)
                /\ e2.reviewed_at # NoTime

\* C28: on the explicit-submit transition to SUBMITTED and on the time-expiry
\* transition to AUTO_SUBMITTED of an IN_PROGRESS attempt, end_time is the
\* time at which the transition is performed, whether the request arrives
\* now or a minute later.
C28_EndTimeIsTransitionTime ==
    (HasAttempt(DB) /\ Att.status = IN_PROGRESS) =>
        \A t \in {now, now + SecondsPerMinute} :
            /\ LET a == AttemptOf(do_submit_exam(DB, t).db)
               IN  a.status = SUBMITTED => a.end_time = t
            /\ \A m \in {"GET", "POST"}, q \in 0..NumQuestions,
                  ans \in AnswerTexts :
                   LET a == AttemptOf(do_take_exam(DB, m, q, ans, t).db)
                   IN  a.status \in {SUBMITTED, AUTO_SUBMITTED} => a.end_time = t

\* C29: an attempt enters a terminal status only from IN_PROGRESS, and
\* AUTO_SUBMITTED only from an IN_PROGRESS attempt whose elapsed time is at
\* least exam.duration minutes.
C29_TerminalOnlyFromInProgress ==
    [][ (HasAttempt(DB) /\ Att'.status \in Terminal
                        /\ Att'.status # Att.status) =>
            /\ Att.status = IN_PROGRESS
            /\ Att'.status = AUTO_SUBMITTED =>
                   /\ Att.start_time # NoTime
                   /\ now - Att.start_time >= exam.duration * SecondsPerMinute
      ]_vars

\* C30: no call of start_exam moves an attempt to PASSWORD_REQUIRED unless it
\* was NOT_STARTED or already PASSWORD_REQUIRED.
C30_PasswordRequiredOnlyFromNotStarted ==
    HasAttempt(DB) =>
        \A d \in Devices, p \in PasswordAttempts :
            AttemptOf(do_start_exam(DB, d, p, now).db).status = PASSWORD_REQUIRED
                => Att.status \in {NOT_STARTED, PASSWORD_REQUIRED}

\* C31: time-budget expiry is lazy.  The passing of time alone changes no
\* row, so an attempt whose budget is exhausted stays IN_PROGRESS until a
\* request arrives; and every take_exam request for an IN_PROGRESS attempt
\* with time_remaining = 0 moves it to AUTO_SUBMITTED and records no answer
\* carried by the request.
C31_LazyExpiry ==
    /\ [][ now' # now =>
               /\ attempts' = attempts
               /\ sessions' = sessions
               /\ responses' = responses ]_vars
    /\ [] ( (HasAttempt(DB) /\ Att.status = IN_PROGRESS
                            /\ time_remaining(Att, now) = 0) =>
              \A m \in {"GET", "POST"}, q \in 0..NumQuestions,
                 ans \in AnswerTexts :
                  LET db2 == do_take_exam(DB, m, q, ans, now).db
                  IN  /\ AttemptOf(db2).status = AUTO_SUBMITTED
                      /\ db2.responses = responses )

\* C31 witness: the budget ran out while the attempt stayed IN_PROGRESS, and
\* with no answer stored a take_exam request is about to find it.
C31_Witness ==
    /\ HasAttempt(DB) /\ Att.status = IN_PROGRESS
    /\ time_remaining(Att, now) = 0
    /\ now - Att.start_time >= exam.duration * SecondsPerMinute

\* C32: finalize_answer on a response whose is_submitted is already true is
\* not rejected: it overwrites student_answer with the new value, keeps
\* is_submitted true and draft_answer None, changes nothing else of the row
\* and no other row.
C32_FinalizeAgain ==
    \A r \in responses :
        r.is_submitted =>
            \A y \in DraftAnswers :
                do_finalize_answer(DB, r, AnswerData(y)).responses =
                    (responses \ {r}) \cup
                    { [r EXCEPT !.student_answer = AnswerData(y),
                                !.draft_answer = NoAnswer] }

\* C32 witness: a response already finalized as "a", with a draft saved
\* after that, on which finalize_answer("b") is the second finalization.
C32_Witness ==
    \E r \in responses :
        /\ r.is_submitted
        /\ r.student_answer = AnswerData("a")
        /\ r.draft_answer # NoAnswer

\* C33: session rows are only ever soft-deactivated.  No step (a terminal
\* attempt save, terminate_session, ActiveExamSession.deactivate or terminate,
\* UserDeviceSession.deactivate) removes an ActiveExamSession row of either
\* app or a UserDeviceSession row: every row is still there afterwards under
\* the same key, so no table shrinks.
C33_RowsNeverRemoved ==
    [][ /\ \A r \in sessions :
               \E r2 \in sessions' : r2.user = r.user /\ r2.exam = r.exam
        /\ \A s \in core_sessions :
               \E s2 \in core_sessions' :
                   /\ s2.user = s.user /\ s2.exam = s.exam
                   /\ s2.attempt = s.attempt
        /\ \A d \in device_sessions :
               \E d2 \in device_sessions' :
                   /\ d2.id = d.id /\ d2.user = d.user
                   /\ d2.device_hash = d.device_hash
        /\ Cardinality(sessions') >= Cardinality(sessions)
        /\ Cardinality(core_sessions') >= Cardinality(core_sessions)
        /\ Cardinality(device_sessions') >= Cardinality(device_sessions)
      ]_vars

\* C33 witness: the attempt is terminal and its tracker row, its core session
\* row and a device session row are all still stored, inactive.
C33_Witness ==
    /\ HasAttempt(DB) /\ Att.status \in Terminal
    /\ \E r \in sessions : r.attempt = Att.id /\ ~r.is_active
    /\ \E s \in core_sessions : s.attempt = Att.id /\ ~s.is_active
    /\ \E d \in device_sessions : ~d.is_active

\* C34: an attempt enters IN_PROGRESS only while its exam is active (status
\* LIVE and the current time within [start_date, end_date]) at the moment
\* start_exam runs.
C34_StartOnlyWhileExamActive ==
    HasAttempt(DB) =>
        \A d \in Devices, p \in PasswordAttempts :
            LET r == do_start_exam(DB, d, p, now)
            IN  (r.success /\ AttemptOf(r.db).status = IN_PROGRESS)
                    => exam_is_active(exam, now)

\* C35: once start_time has been set by a successful start_exam no later
\* operation changes it: start_exam called again on an IN_PROGRESS attempt
\* keeps start_time, and time_remaining does not grow.
C35_StartTimeImmutable ==
    (HasAttempt(DB) /\ Att.status = IN_PROGRESS /\ Att.start_time # NoTime) =>
        \A d \in Devices, p \in PasswordAttempts :
            LET a == AttemptOf(do_start_exam(DB, d, p, now).db)
            IN  /\ a.start_time = Att.start_time
                /\ time_remaining(a, now) <= time_remaining(Att, now)

\* C36: a QuestionResponse is created or its student_answer changed only
\* while the attempt is IN_PROGRESS with time_remaining > 0: for an attempt
\* in any other condition neither take_exam nor api_save_response changes
\* the response table.
C36_WritesOnlyWhileRunning ==
    (HasAttempt(DB) /\ ~(Att.status = IN_PROGRESS /\ time_remaining(Att, now) > 0))
        => \A m \in {"GET", "POST"}, ans \in AnswerTexts :
               /\ \A q \in 0..NumQuestions :
                      do_take_exam(DB, m, q, ans, now).db.responses = responses
               /\ \A n \in Questions :
                      do_api_save_response(DB, TRUE, m, n, ans).db.responses
                          = responses

\* C37: after start_exam with any arguments (a null device_session included),
\* an attempt whose status is IN_PROGRESS has start_time, device_session and
\* session_token all non-null.
C37_InProgressFieldsSet ==
    HasAttempt(DB) =>
        \A d \in Devices \cup {NoDevice}, p \in PasswordAttempts :
            LET a == AttemptOf(do_start_exam(DB, d, p, now).db)
            IN  a.status = IN_PROGRESS =>
                    /\ a.start_time # NoTime
                    /\ a.device_session # NoDevice
                    /\ a.session_token # NoToken

\* C38: whenever an attempt's end_time is set, its start_time is set too and
\* start_time <= end_time.
C38_EndAfterStart ==
    (HasAttempt(DB) /\ Att.end_time # NoTime) =>
        /\ Att.start_time # NoTime
        /\ Att.start_time <= Att.end_time

\* C39: password_attempts never decreases.  Whatever the state, start_exam
\* raises it by exactly 1 when the exam requires a password and the password
\* given is non-empty and wrong, and leaves it unchanged otherwise; every
\* other operation (submit, terminate_session, take_exam, the password view,
\* api_save_response) leaves it unchanged.
C39_PasswordAttemptsMonotone ==
    [] ( HasAttempt(DB) =>
           LET same(db) == AttemptOf(db).password_attempts = Att.password_attempts
           IN  /\ \A d \in Devices, p \in PasswordAttempts :
                      AttemptOf(do_start_exam(DB, d, p, now).db).password_attempts
                          = Att.password_attempts
                            + (IF /\ requires_password(exam)
                                  /\ p # NoPassword /\ p # <<>>
                                  /\ p # exam.exam_password
                               THEN 1 ELSE 0)
               /\ same(do_submit_exam(DB, now).db)
               /\ \A reason \in Reasons :
                      same(do_terminate_session(DB, reason, now).db)
               /\ \A m \in {"GET", "POST"} :
                      /\ same(do_exam_password(DB, m, <<"x">>, now).db)
                      /\ \A q \in 0..NumQuestions, ans \in AnswerTexts :
                             same(do_take_exam(DB, m, q, ans, now).db)
                      /\ \A n \in Questions, ans \in AnswerTexts :
                             same(do_api_save_response(DB, TRUE, m, n, ans).db) )

\* C39 witness: a wrong password was counted, and the count is still there
\* after the attempt was started and then ended.
C39_Witness ==
    /\ HasAttempt(DB) /\ Att.password_attempts = 1
    /\ Att.start_time # NoTime
    /\ Att.status \in Terminal

\* C40: after ActiveExamSession.terminate(reason) the session has
\* is_active = False and its attempt has status TERMINATED, termination_reason
\* equal to reason and end_time set: terminating the session never leaves the
\* attempt IN_PROGRESS.
C40_SessionTerminate ==
    HasAttempt(DB) =>
        \A s \in core_sessions, reason \in Reasons :
            LET r == do_session_terminate(DB, CoreDB, s, reason, now)
                a == AttemptOf(r.db)
            IN  /\ \A s2 \in r.cdb.core_sessions :
                       (s2.user = s.user /\ s2.exam = s.exam) => ~s2.is_active
                /\ Cardinality(r.cdb.core_sessions) = Cardinality(core_sessions)
                /\ a.id = s.attempt
                /\ a.status = TERMINATED
                /\ a.termination_reason = reason
                /\ a.end_time # NoTime /\ a.end_time = now

\* C40 witness: a session of a running attempt has been terminated: the
\* attempt, started earlier, is TERMINATED with the reason and its session
\* row is inactive.
C40_Witness ==
    /\ HasAttempt(DB) /\ Att.status = TERMINATED
    /\ Att.start_time # NoTime
    /\ Att.termination_reason = "Session terminated by system"
    /\ \E s \in core_sessions : s.attempt = Att.id /\ ~s.is_active

====
